---- MODULE Spec2Model ----
(***************************************************************************)
(* Model of IsogeomGenerator/vol.py, class IsoVolume: the topology          *)
(* reconstruction done by create_geometry (__separate_isovols,             *)
(* __imprint_merge, __make_family) over a MOAB mesh store, the export of   *)
(* the band files by __generate_vols, and generate_levels in ratio mode.   *)
(*                                                                         *)
(* Units: coordinates are integers in units of merge_tol, so the absolute  *)
(* per-axis tolerance is 1.  Levels are integers.  Python's None is the     *)
(* integer None below, outside the level values.                           *)
(***************************************************************************)
EXTENDS Integers, Sequences, FiniteSets, TLC

(***************************************************************************)
(* Bounds of the model.                                                    *)
(***************************************************************************)
\* the most contour levels in self.levels
MaxLevels == 2
\* level values are drawn from 1..MaxLevelVal
MaxLevelVal == 2
\* the most triangles over all band files together
MaxTris == 4
\* __get_matches on its own: the most vertices in vertsA and in vertsB
MaxA == 2
MaxB == 2
\* __generate_vols on its own: the most contour levels
MaxGenLevels == 3
\* generate_levels in ratio mode: the largest ratio N, minN and maxN
MaxRatio == 3
MaxMinN == 3
MaxMaxN == 8
\* generate_levels in ratio mode: the entries of self.levels kept in levels;
\* no list with a last value of at most MaxMaxN and a ratio above 1 is longer
MaxRatioLevels == 6

(***************************************************************************)
(* The input meshes.  A band file is a triangle soup: a set of the facets  *)
(* below, over six sites that are pairwise more than merge_tol apart on at *)
(* least one axis.  The facets give: a closed two-facet surface (1 and 2), *)
(* an open two-facet surface (1 and 3), two surfaces that touch in one      *)
(* vertex (1 and 4), and two disjoint surfaces (3 and 4).                  *)
(***************************************************************************)
SiteCoord ==
    << <<0, 0, 0>>, <<3, 0, 0>>, <<0, 3, 0>>,
       <<0, 0, 3>>, <<3, 3, 0>>, <<3, 0, 3>> >>
NSites == Len(SiteCoord)
Facet == << <<1, 2, 3>>, <<1, 3, 2>>, <<1, 2, 4>>, <<3, 5, 6>> >>
NFacets == Len(Facet)

\* merge_tol, in the model's units
MergeTol == 1
\* norm, the factor applied to tagged values
Norm == 2
\* Python's None in a bounds tuple
None == -1
\* np.uint64(0), the backward sense of an unshared surface
ZeroHandle == 0
\* a local variable that has no value yet
Unbound == -1
\* lbound of the lowest band, 0.0
BottomBound == 0
\* ubound of the highest band, 1.e200
TopBound == 100

VARIABLES
    levels,      \* self.levels
    files,       \* the ranks i of the files i.stl in db/vols/
    meshIn,      \* meshIn[i]: the facets of file i.stl
    jitter,      \* offset of the vertices of odd-rank files, per axis: 0 or merge_tol
    conn,        \* mesh store: triangle handle -> its three vertex handles
    ms,          \* mesh store: meshset handle -> [V, T, E] (vertices, triangles, edges)
    isovol,      \* self.isovol_meshsets: rank -> [fs, surfs_EH, bounds]
    surf_curve,  \* self.surf_curve: surface handle -> list of curve handles
    val_tag,     \* self.val_tag data: meshset handle -> value
    sense_tag,   \* GEOM_SENSE_2 data: meshset handle -> <<fwd, bwd>>
    gid_tag,     \* GLOBAL_ID data: meshset handle -> id
    dim_tag,     \* GEOM_DIMENSION data: meshset handle -> dimension
    children,    \* parent-child links of the store: set of <<parent, child>>
    pc,          \* position in create_geometry
    pairIdx,     \* __imprint_merge: i of enumerate(all_vols)
    k1,          \* __compare_surfs: index of the iterator over v1's surfs_EH
    k2,          \* __compare_surfs: index of the iterator over v2's surfs_EH
    s1,          \* __compare_surfs: the current s1
    verts1,      \* __compare_surfs: verts1, the vertices listed for s1
    match_surfs, \* __compare_surfs: match_surfs
    lastMatch,   \* the last __get_matches call: its arguments and result
    shared_of,   \* history: coincident surface -> the ranks <<v1, v2>> it was made for
    err,         \* the exception that ended the run, or "none"
    calls,       \* history: the calls __compare_surfs(v1, v2) made, as <<v1, v2>> ranks
    hist,        \* history of the running __compare_surfs call: the lists as the
                 \* loops started and the patches the loops have taken
    data,        \* __generate_vols: the data values present on the mesh
    exported,    \* __generate_vols: rank of a written file -> its <<lbound, ubound>>
    loop_levels, \* __generate_vols: the list self.levels[1:] the for loop iterates
    loop_pos,    \* __generate_vols: entries of loop_levels already taken
    idx,         \* __generate_vols: the local i, Unbound before its first assignment
    lastExport,  \* history: the last __get_isovol call
    N,           \* generate_levels: N
    minN,        \* generate_levels: minN
    maxN,        \* generate_levels: maxN
    tmpmax,      \* generate_levels: tmpmax
    cut          \* generate_levels: parity of the number of entries of self.levels
                 \* that lie before the MaxRatioLevels last ones, which levels holds

\* the state of create_geometry that the other entry points leave alone
mergeVars == << meshIn, jitter, conn, ms, isovol, surf_curve, val_tag, sense_tag,
                gid_tag, dim_tag, children, pairIdx, k1, k2, s1, verts1,
                match_surfs, lastMatch, shared_of, calls, hist >>
\* the state of __generate_vols
genVars == << data, exported, loop_levels, loop_pos, idx, lastExport >>
\* the state of generate_levels
lvlVars == << N, minN, maxN, tmpmax, cut >>

vars == << levels, files, pc, err, mergeVars, genVars, lvlVars >>

Empty == << >>

Min(S) == CHOOSE x \in S : \A y \in S : x <= y
Max(S) == CHOOSE x \in S : \A y \in S : x >= y
RangeOf(f) == {f[x] : x \in DOMAIN f}
SeqToSet(q) == {q[i] : i \in 1..Len(q)}

\* list.remove(x): drops the first occurrence of x
RECURSIVE ListRemove(_, _)
ListRemove(q, x) ==
    IF q = << >> THEN << >>
    ELSE IF Head(q) = x THEN Tail(q)
    ELSE << Head(q) >> \o ListRemove(Tail(q), x)

(***************************************************************************)
(* Mesh store handles and coordinates.                                     *)
(***************************************************************************)
\* the vertex that load_file creates for site s of file i
VertH(i, s) == i * NSites + s
\* the triangle that load_file creates for facet k of file i
TriH(i, k) == i * NFacets + k
RankOfVert(v) == (v - 1) \div NSites
SiteOfVert(v) == ((v - 1) % NSites) + 1

\* mb.get_coords(v)
Coord(v) ==
    LET c == SiteCoord[SiteOfVert(v)]
        d == IF RankOfVert(v) % 2 = 1 THEN jitter ELSE 0
    IN  << c[1] + d, c[2] + d, c[3] + d >>

\* mb.get_adjacencies(vs, 2, op_type=1): the triangles using a vertex of vs
AdjTris(c, vs) == {t \in DOMAIN c : \E i \in 1..3 : c[t][i] \in vs}
\* mb.get_adjacencies(ts, 0, op_type=1), mb.get_connectivity(ts)
VertsOf(c, ts) == {c[t][i] : t \in ts, i \in 1..3}

\* __get_surf_triangles(verts_good)
GetSurfTriangles(c, verts_good) ==
    LET tris_all == AdjTris(c, verts_good)
        verts_all == VertsOf(c, tris_all)
        verts_bad == verts_all \ verts_good
    IN  IF verts_bad # {}
        THEN tris_all \ AdjTris(c, verts_bad)
        ELSE tris_all

\* mb.create_meshset() followed by add_entities
NewSet(V, T, E) == [V |-> V, T |-> T, E |-> E]

(***************************************************************************)
(* __separate                                                              *)
(***************************************************************************)
\* mutant of Flood: the adjacency of the seed only, no further rounds
FloodOneRound(c, verts, verts_check) ==
    verts \cup VertsOf(c, AdjTris(c, verts_check))

\* the inner "while True" loop: the vertices connected to the seed
RECURSIVE Flood(_, _, _)
Flood(c, verts, verts_check) ==
    LET vtmp == VertsOf(c, AdjTris(c, verts_check))
        vtmp_all == verts \cup vtmp
    IN  IF Cardinality(vtmp_all) = Cardinality(verts)
        THEN verts
        ELSE Flood(c, vtmp_all, vtmp_all \ verts)

\* the "while len(all_verts) > 0" loop; m is the store's meshsets, fs the
\* file set, surfs the surfs_EH list so far
RECURSIVE SeparateLoop(_, _, _, _)
SeparateLoop(c, m, fs, surfs) ==
    LET all_verts == m[fs].V
    IN  IF all_verts = {} THEN [ms |-> m, surfs |-> surfs]
        ELSE
          LET seed == Min(all_verts)
              verts == Flood(c, {seed}, {seed})
              tris == GetSurfTriangles(c, verts)
              surf == Len(m) + 1
              m1 == Append(m, NewSet(verts, tris, {}))
              m2 == [m1 EXCEPT ![fs].T = @ \ tris, ![fs].V = @ \ verts]
          IN  SeparateLoop(c, m2, fs, Append(surfs, surf))

\* mutant of BoundsOf: the two levels of an interior band in the wrong order
BoundsOfSwapped(i) ==
    IF i = 0 THEN << None, levels[1] >>
    ELSE IF i = Len(levels) THEN << levels[i], None >>
    ELSE << levels[i + 1], levels[i] >>

\* the bounds tuple of rank i (levels is 1-based here)
BoundsOf(i) ==
    IF i = 0 THEN << None, levels[1] >>
    ELSE IF i = Len(levels) THEN << levels[i], None >>
    ELSE << levels[i], levels[i + 1] >>

\* mb.load_file(fpath, file_set=fs): the triangles and vertices of file i
FileTris(i) == {TriH(i, k) : k \in meshIn[i]}
FileConn(i) ==
    [t \in FileTris(i) |->
        LET f == Facet[t - i * NFacets]
        IN  << VertH(i, f[1]), VertH(i, f[2]), VertH(i, f[3]) >>]
FileVerts(i) == {FileConn(i)[t][j] : t \in FileTris(i), j \in 1..3}

\* __separate_isovols: one iteration of "for f in sorted(os.listdir(...))"
SeparateIsovol ==
    /\ pc = "separate"
    /\ files \ DOMAIN isovol # {}
    /\ LET i == Min(files \ DOMAIN isovol)
           fs == Len(ms) + 1
           c == conn @@ FileConn(i)
           m0 == Append(ms, NewSet(FileVerts(i), FileTris(i), {}))
           r == SeparateLoop(c, m0, fs, << >>)
       IN  /\ conn' = c
           /\ ms' = r.ms
           /\ IF i > Len(levels)
              THEN /\ err' = "IndexError"
                   /\ pc' = "error"
                   /\ isovol' = isovol @@ (i :> [fs |-> fs, surfs_EH |-> r.surfs])
              ELSE /\ err' = err
                   /\ pc' = pc
                   /\ isovol' = isovol @@
                        (i :> [fs |-> fs, surfs_EH |-> r.surfs, bounds |-> BoundsOf(i)])
    /\ UNCHANGED << genVars, lvlVars, calls, hist >>
    /\ UNCHANGED << levels, files, meshIn, jitter, surf_curve, val_tag, sense_tag,
                    gid_tag, dim_tag, children, pairIdx, k1, k2, s1, verts1,
                    match_surfs, lastMatch, shared_of >>

(***************************************************************************)
(* __list_coords and __get_matches                                         *)
(***************************************************************************)
\* __list_coords(eh): vertex -> coordinate
ListCoords(V) == [v \in V |-> Coord(v)]
\* __list_coords(eh, invert=True): coordinate -> vertex; a later vertex of
\* the (ascending) range overwrites an earlier one with the same coordinate
ListCoordsInv(V) ==
    [c \in {Coord(v) : v \in V} |-> Max({v \in V : Coord(v) = c})]

Abs(x) == IF x < 0 THEN -x ELSE x

\* mutant of IsClose: the z axis is left out of the intersection
IsCloseXY(a, b) == \A i \in 1..2 : Abs(a[i] - b[i]) <= MergeTol

\* np.isclose(coord, bcoord, rtol=0, atol=merge_tol) on all three axes
\* (the intersection of ix, iy and iz)
IsClose(a, b) == \A i \in 1..3 : Abs(a[i] - b[i]) <= MergeTol

\* all functions f on S with f[x] \in opt[x]
RECURSIVE ChoiceFns(_, _)
ChoiceFns(S, opt) ==
    IF S = {} THEN {Empty}
    ELSE LET x == CHOOSE y \in S : TRUE
         IN  {f @@ (x :> b) : f \in ChoiceFns(S \ {x}, opt), b \in opt[x]}

\* __get_matches(vertsA, vertsB): the results it can return.  m maps each
\* entry of sA_match_eh to the entry of sB_match_eh at the same index, d is
\* match_dict.  index_set[0] is any element of index_set (set order); when
\* several A vertices take the same B vertex, match_dict keeps the one that
\* vertsA.items() yields last (dict order).
GetMatches(vertsA, vertsB) ==
    LET Cand(a) == {c \in DOMAIN vertsB : IsClose(vertsA[a], c)}
        BOpt == [a \in DOMAIN vertsA |->
                   IF vertsA[a] \in DOMAIN vertsB
                   THEN {vertsB[vertsA[a]]}
                   ELSE {vertsB[c] : c \in Cand(a)}]
        sA == {a \in DOMAIN vertsA : BOpt[a] # {}}
    IN  UNION { LET AOpt == [b \in RangeOf(m) |-> {a \in sA : m[a] = b}]
                IN  {[m |-> m, d |-> d] : d \in ChoiceFns(RangeOf(m), AOpt)}
              : m \in ChoiceFns(sA, BOpt) }

(***************************************************************************)
(* Skinner.find_skin                                                       *)
(***************************************************************************)
TriEdges(c, t) == { {c[t][1], c[t][2]}, {c[t][2], c[t][3]}, {c[t][1], c[t][3]} }
\* find_skin(surf, tris, False, False): the edges on exactly one triangle
SkinEdges(c, tris) ==
    {e \in UNION {TriEdges(c, t) : t \in tris} :
        Cardinality({t \in tris : e \in TriEdges(c, t)}) = 1}
\* find_skin(surf, tris, True, False): the vertices of the skin
SkinVerts(c, tris) == UNION SkinEdges(c, tris)

(***************************************************************************)
(* __imprint_merge and __compare_surfs                                     *)
(***************************************************************************)
RECURSIVE SortedSeq(_)
SortedSeq(S) == IF S = {} THEN << >> ELSE << Min(S) >> \o SortedSeq(S \ {Min(S)})

\* all_vols = sorted(self.isovol_meshsets.keys()), as ranks
AllVols == SortedSeq(DOMAIN isovol)
\* v1 and v2 of the running __compare_surfs call
V1 == AllVols[pairIdx + 1]
V2 == AllVols[pairIdx + 2]

\* __separate_isovols has listed every file; __imprint_merge starts
ImprintMergeStart ==
    /\ pc = "separate"
    /\ files \ DOMAIN isovol = {}
    /\ surf_curve' = Empty
    /\ pairIdx' = 0
    /\ pc' = "merge"
    /\ UNCHANGED << genVars, lvlVars, calls, hist >>
    /\ UNCHANGED << levels, files, meshIn, jitter, conn, ms, isovol, val_tag,
                    sense_tag, gid_tag, dim_tag, children, k1, k2, s1, verts1,
                    match_surfs, lastMatch, shared_of, err >>

\* "if i != len(self.levels)": the call __compare_surfs(isovol, all_vols[i+1])
CompareSurfsStart ==
    /\ pc = "merge"
    /\ pairIdx < Len(AllVols)
    /\ pairIdx # Len(levels)
    /\ pairIdx + 1 < Len(AllVols)
    /\ match_surfs' = << >>
    /\ k1' = 0
    /\ pc' = "outer"
    /\ calls' = Append(calls, << V1, V2 >>)
    /\ hist' = [start1 |-> isovol[V1].surfs_EH, seen1 |-> {},
                start2 |-> << >>, seen2 |-> {}]
    /\ UNCHANGED << genVars, lvlVars >>
    /\ UNCHANGED << levels, files, meshIn, jitter, conn, ms, isovol, surf_curve,
                    val_tag, sense_tag, gid_tag, dim_tag, children, pairIdx,
                    k2, s1, verts1, lastMatch, shared_of, err >>

\* all_vols[i+1] past the end of the list
MergeIndexError ==
    /\ pc = "merge"
    /\ pairIdx < Len(AllVols)
    /\ pairIdx # Len(levels)
    /\ pairIdx + 1 >= Len(AllVols)
    /\ err' = "IndexError"
    /\ pc' = "error"
    /\ UNCHANGED << genVars, lvlVars, calls, hist >>
    /\ UNCHANGED << levels, files, meshIn, jitter, conn, ms, isovol, surf_curve,
                    val_tag, sense_tag, gid_tag, dim_tag, children, pairIdx,
                    k1, k2, s1, verts1, match_surfs, lastMatch, shared_of >>

\* i == len(self.levels): no comparison for this volume
MergeSkip ==
    /\ pc = "merge"
    /\ pairIdx < Len(AllVols)
    /\ pairIdx = Len(levels)
    /\ pairIdx' = pairIdx + 1
    /\ UNCHANGED << genVars, lvlVars, calls, hist >>
    /\ UNCHANGED << levels, files, meshIn, jitter, conn, ms, isovol, surf_curve,
                    val_tag, sense_tag, gid_tag, dim_tag, children, pc,
                    k1, k2, s1, verts1, match_surfs, lastMatch, shared_of, err >>

\* surf_curve[s] = [] unless s is a key
InitCurves(sc, s) == IF s \in DOMAIN sc THEN sc ELSE sc @@ (s :> << >>)

\* "for s1 in self.isovol_meshsets[v1]['surfs_EH']": the next s1
OuterNext ==
    /\ pc = "outer"
    /\ k1 < Len(isovol[V1].surfs_EH)
    /\ LET s == isovol[V1].surfs_EH[k1 + 1]
       IN  /\ s1' = s
           /\ verts1' = ms[s].V
           /\ surf_curve' = InitCurves(surf_curve, s)
           /\ hist' = [hist EXCEPT !.seen1 = @ \cup {s},
                                   !.start2 = isovol[V2].surfs_EH,
                                   !.seen2 = {}]
    /\ k1' = k1 + 1
    /\ k2' = 0
    /\ pc' = "inner"
    /\ UNCHANGED << genVars, lvlVars, calls >>
    /\ UNCHANGED << levels, files, meshIn, jitter, conn, ms, isovol, val_tag,
                    sense_tag, gid_tag, dim_tag, children, pairIdx,
                    match_surfs, lastMatch, shared_of, err >>

\* the loop over s1 is exhausted: both lists are extended, the call returns
CompareSurfsEnd ==
    /\ pc = "outer"
    /\ k1 >= Len(isovol[V1].surfs_EH)
    /\ isovol' = [isovol EXCEPT ![V1].surfs_EH = @ \o match_surfs,
                                ![V2].surfs_EH = @ \o match_surfs]
    /\ pairIdx' = pairIdx + 1
    /\ pc' = "merge"
    /\ UNCHANGED << genVars, lvlVars, calls, hist >>
    /\ UNCHANGED << levels, files, meshIn, jitter, conn, ms, surf_curve, val_tag,
                    sense_tag, gid_tag, dim_tag, children, k1, k2, s1, verts1,
                    match_surfs, lastMatch, shared_of, err >>

\* the loop over s2 is exhausted for this s1
InnerEnd ==
    /\ pc = "inner"
    /\ k2 >= Len(isovol[V2].surfs_EH)
    /\ pc' = "outer"
    /\ UNCHANGED << genVars, lvlVars, calls, hist >>
    /\ UNCHANGED << levels, files, meshIn, jitter, conn, ms, isovol, surf_curve,
                    val_tag, sense_tag, gid_tag, dim_tag, children, pairIdx,
                    k1, k2, s1, verts1, match_surfs, lastMatch, shared_of, err >>

\* the stitch loop "for vert_delete in s2_match_eh": every triangle using a
\* matched vertex of s2 gets match_dict's vertex in its place
Stitch(c, d) ==
    [t \in DOMAIN c |->
        [i \in 1..3 |-> IF c[t][i] \in DOMAIN d THEN d[c[t][i]] ELSE c[t][i]]]

\* mb.delete_entities(tris)
DeleteTris(c, tris) == [t \in DOMAIN c \ tris |-> c[t]]

\* mutant of SharedSense: forward and backward exchanged
SharedSenseSwapped(v1, v2) == << isovol[v2].fs, isovol[v1].fs >>

\* "fwd = v1[1]; bwd = v2[1]": the sense of a coincident surface
SharedSense(v1, v2) == << isovol[v1].fs, isovol[v2].fs >>

\* mutant of AppendCurve: the newest surface of hs, the coincident one, gets
\* no curve
AppendCurveNotShared(sc, hs, curve) ==
    [h \in DOMAIN sc |->
        IF h \in hs \ {Max(hs)} THEN Append(sc[h], curve) ELSE sc[h]]

\* "self.surf_curve[s].append(curve)" for each surface s of hs
AppendCurve(sc, hs, curve) ==
    [h \in DOMAIN sc |-> IF h \in hs THEN Append(sc[h], curve) ELSE sc[h]]

\* set(bounds of v1) & set(bounds of v2)
SharedBounds(b1, b2) == {b1[1], b1[2]} \cap {b2[1], b2[2]}

\* the body of "for s2 in self.isovol_meshsets[v2]['surfs_EH']" for the next
\* s2.  The vertices match_dict puts in are vertices of s1 and never keys of
\* match_dict, so the stitch loop's result does not depend on its order.
InnerBody ==
    /\ pc = "inner"
    /\ k2 < Len(isovol[V2].surfs_EH)
    /\ k2' = k2 + 1
    /\ LET s2 == isovol[V2].surfs_EH[k2 + 1]
           sc0 == InitCurves(surf_curve, s2)
           vertsA == ListCoords(verts1)
           vertsB == ListCoordsInv(ms[s2].V)
       IN
       \E r \in GetMatches(vertsA, vertsB) :
         /\ lastMatch' = [A |-> vertsA, B |-> vertsB, m |-> r.m, d |-> r.d]
         /\ IF DOMAIN r.m = {}
            THEN \* s1_match_eh == []
                 /\ surf_curve' = sc0
                 /\ pc' = pc
                 /\ UNCHANGED << conn, ms, isovol, val_tag, sense_tag,
                                 match_surfs, shared_of, err >>
            ELSE
              LET s1_match_eh == DOMAIN r.m
                  s2_match_eh == RangeOf(r.m)
                  tris1 == GetSurfTriangles(conn, s1_match_eh)
                  tris2 == GetSurfTriangles(conn, s2_match_eh)
                  surf == Len(ms) + 1
                  m1 == Append(ms, NewSet(s1_match_eh, tris1, {}))
                  sc1 == sc0 @@ (surf :> << >>)
                  curve_verts == SkinVerts(conn, tris1)
                  curve_edges == SkinEdges(conn, tris1)
                  hasCurve == curve_verts # {}
                  curve == Len(m1) + 1
                  m2 == IF hasCurve
                        THEN Append(m1, NewSet(curve_verts, {}, curve_edges))
                        ELSE m1
                  sc2 == IF hasCurve
                         THEN AppendCurve(sc1, {s1, s2, surf}, curve)
                         ELSE sc1
                  c1 == IF hasCurve THEN Stitch(conn, r.d) ELSE conn
                  m3 == [m2 EXCEPT ![s1].T = @ \ tris1,
                                   ![s1].V = @ \ s1_match_eh]
                  m4 == [m3 EXCEPT ![s2].T = @ \ tris2,
                                   ![s2].V = @ \ s2_match_eh]
                  c2 == DeleteTris(c1, tris2)
                  shared == SharedBounds(isovol[V1].bounds, isovol[V2].bounds)
              IN
                /\ conn' = c2
                /\ ms' = m4
                /\ surf_curve' = sc2
                /\ sense_tag' = sense_tag @@ (surf :> SharedSense(V1, V2))
                /\ shared_of' = shared_of @@ (surf :> << V1, V2 >>)
                /\ \E x \in (IF shared = {} THEN {None} ELSE shared) :
                     IF shared # {} /\ x = None
                     THEN \* shared[0] is None: None * self.norm
                          /\ err' = "TypeError"
                          /\ pc' = "error"
                          /\ UNCHANGED << isovol, val_tag, match_surfs >>
                     ELSE
                       /\ val_tag' = val_tag @@
                            (surf :> (IF shared = {} THEN 0 ELSE x * Norm))
                       /\ match_surfs' = Append(match_surfs, surf)
                       /\ LET s2_empty == m4[s2].V = {}
                              s1_empty == m4[s1].V = {}
                          IN  /\ isovol' =
                                   [isovol EXCEPT
                                      ![V2].surfs_EH =
                                         IF s2_empty THEN ListRemove(@, s2) ELSE @,
                                      ![V1].surfs_EH =
                                         IF s1_empty THEN ListRemove(@, s1) ELSE @]
                              /\ pc' = IF s1_empty THEN "outer" ELSE pc
                       /\ err' = err
    /\ hist' = [hist EXCEPT !.seen2 = @ \cup {isovol[V2].surfs_EH[k2 + 1]}]
    /\ UNCHANGED << genVars, lvlVars, calls >>
    /\ UNCHANGED << levels, files, meshIn, jitter, gid_tag, dim_tag, children,
                    pairIdx, k1, s1, verts1 >>

\* every surface handle in some volume's surfs_EH
ListedSurfs == UNION {SeqToSet(isovol[i].surfs_EH) : i \in DOMAIN isovol}

\* mutant of PostPassSurfs: the last volume of all_vols is left out
PostPassSurfsNotLast ==
    UNION {SeqToSet(isovol[i].surfs_EH) : i \in DOMAIN isovol \ {Max(DOMAIN isovol)}}

\* the surfaces the post-pass visits
PostPassSurfs == ListedSurfs

\* "fwd = isovol[1]; bwd = np.uint64(0)": the sense of a surface of volume i
\* that has none
ForwardSense(i) == << isovol[i].fs, ZeroHandle >>

\* the post-pass of __imprint_merge: "for isovol in all_vols: for surf in ..."
PostPass ==
    /\ pc = "merge"
    /\ pairIdx = Len(AllVols)
    /\ LET noVal == {s \in PostPassSurfs : s \notin DOMAIN val_tag}
           noSense == {s \in PostPassSurfs : s \notin DOMAIN sense_tag}
           \* the first volume of all_vols that lists s
           Owner(s) == Min({i \in DOMAIN isovol : s \in SeqToSet(isovol[i].surfs_EH)})
       IN  /\ val_tag' = val_tag @@ [s \in noVal |-> 0]
           /\ ms' = [h \in DOMAIN ms |->
                       IF h \in noVal
                       THEN [ms[h] EXCEPT !.T = @ \cup GetSurfTriangles(conn, ms[h].V)]
                       ELSE ms[h]]
           /\ sense_tag' = sense_tag @@
                             [s \in noSense |-> ForwardSense(Owner(s))]
    /\ pc' = "family"
    /\ UNCHANGED << genVars, lvlVars, calls, hist >>
    /\ UNCHANGED << levels, files, meshIn, jitter, conn, isovol, surf_curve,
                    gid_tag, dim_tag, children, pairIdx, k1, k2, s1, verts1,
                    match_surfs, lastMatch, shared_of, err >>

(***************************************************************************)
(* __make_family                                                           *)
(***************************************************************************)
\* the orders in which a dict can yield the keys S
RECURSIVE Perms(_)
Perms(S) ==
    IF S = {} THEN {<< >>}
    ELSE UNION {{<< x >> \o p : p \in Perms(S \ {x})} : x \in S}

\* mutant of TagIds: the id is not incremented between two entities
RECURSIVE TagIdsNoIncrement(_, _, _)
TagIdsNoIncrement(q, g, id) ==
    IF q = << >> THEN g
    ELSE TagIdsNoIncrement(Tail(q), (Head(q) :> (id + 1)) @@ g, id)

\* "id += 1; tag_set_data(global_id, eh, id)" for each eh of q in turn
RECURSIVE TagIds(_, _, _)
TagIds(q, g, id) ==
    IF q = << >> THEN g
    ELSE TagIds(Tail(q), (Head(q) :> (id + 1)) @@ g, id + 1)

RECURSIVE Concat(_, _)
\* the entries of L[k], for each key k of q in turn
Concat(q, L) ==
    IF q = << >> THEN << >> ELSE L[Head(q)] \o Concat(Tail(q), L)

\* __make_family, for one order of isovol_meshsets.keys() and one order of
\* surf_curve.keys() (keys without curves tag nothing and are left out)
MakeFamily ==
    /\ pc = "family"
    /\ \E vorder \in Perms(DOMAIN isovol) :
       \E sorder \in Perms({s \in DOMAIN surf_curve : surf_curve[s] # << >>}) :
         LET vols == [k \in 1..Len(vorder) |-> isovol[vorder[k]].fs]
             surfs == Concat(vorder, [i \in DOMAIN isovol |-> isovol[i].surfs_EH])
             curves == Concat(sorder, surf_curve)
         IN  /\ gid_tag' = TagIds(curves, TagIds(surfs, TagIds(vols, gid_tag, 0), 0), 0)
             /\ dim_tag' = [h \in SeqToSet(curves) |-> 1]
                           @@ [h \in SeqToSet(surfs) |-> 2]
                           @@ [h \in SeqToSet(vols) |-> 3]
                           @@ dim_tag
             /\ children' = children
                  \cup UNION {{<< isovol[i].fs, s >> : s \in SeqToSet(isovol[i].surfs_EH)}
                                : i \in DOMAIN isovol}
                  \cup UNION {{<< s, c >> : c \in SeqToSet(surf_curve[s])}
                                : s \in DOMAIN surf_curve}
    /\ pc' = "done"
    /\ UNCHANGED << genVars, lvlVars, calls, hist >>
    /\ UNCHANGED << levels, files, meshIn, jitter, conn, ms, isovol, surf_curve,
                    val_tag, sense_tag, pairIdx, k1, k2, s1, verts1,
                    match_surfs, lastMatch, shared_of, err >>

(***************************************************************************)
(* The run of create_geometry                                              *)
(***************************************************************************)
\* sorted level lists (assign_levels, read_levels)
LevelLists ==
    {l \in UNION {[1..n -> 1..MaxLevelVal] : n \in 1..MaxLevels} :
        \A i \in 1..(Len(l) - 1) : l[i] <= l[i + 1]}

RECURSIVE SumCard(_, _)
SumCard(f, S) ==
    IF S = {} THEN 0
    ELSE LET x == CHOOSE y \in S : TRUE
         IN  Cardinality(f[x]) + SumCard(f, S \ {x})

\* __generate_vols is not running
GenIdle ==
    /\ data = {}
    /\ exported = Empty
    /\ loop_levels = << >>
    /\ loop_pos = 0
    /\ idx = Unbound
    /\ lastExport = [n |-> 0, i |-> 0, lbound |-> 0, ubound |-> 0, res |-> 1,
                     at |-> "none"]

\* generate_levels is not running
LevelsIdle ==
    /\ N = 0
    /\ minN = 0
    /\ maxN = 0
    /\ tmpmax = 0
    /\ cut = 0

Init ==
    /\ GenIdle
    /\ LevelsIdle
    /\ calls = << >>
    /\ hist = [start1 |-> << >>, seen1 |-> {}, start2 |-> << >>, seen2 |-> {}]
    /\ levels \in LevelLists
    /\ files \in SUBSET (0..Len(levels)) \ {{}}
    /\ meshIn \in {f \in [files -> SUBSET (1..NFacets)] : SumCard(f, files) <= MaxTris}
    /\ jitter \in {0, MergeTol}
    /\ conn = Empty
    /\ ms = << >>
    /\ isovol = Empty
    /\ surf_curve = Empty
    /\ val_tag = Empty
    /\ sense_tag = Empty
    /\ gid_tag = Empty
    /\ dim_tag = Empty
    /\ children = {}
    /\ pc = "separate"
    /\ pairIdx = 0
    /\ k1 = 0
    /\ k2 = 0
    /\ s1 = 0
    /\ verts1 = {}
    /\ match_surfs = << >>
    /\ lastMatch = [A |-> Empty, B |-> Empty, m |-> Empty, d |-> Empty]
    /\ shared_of = Empty
    /\ err = "none"

Next ==
    \/ SeparateIsovol
    \/ ImprintMergeStart
    \/ CompareSurfsStart
    \/ MergeIndexError
    \/ MergeSkip
    \/ OuterNext
    \/ InnerBody
    \/ InnerEnd
    \/ CompareSurfsEnd
    \/ PostPass
    \/ MakeFamily

Spec == Init /\ [][Next]_vars

(***************************************************************************)
(* __get_matches on its own, for any two vertex dictionaries               *)
(***************************************************************************)
\* coordinates that are equal, within merge_tol, or apart, axis by axis
MatchPoints ==
    { <<0, 0, 0>>, <<1, 0, 0>>, <<0, 1, 0>>, <<0, 0, 1>>,
      <<2, 0, 0>>, <<0, 2, 0>>, <<1, 1, 2>>, <<1, 1, 1>> }

\* the handle of the B vertex at coordinate c
PointHandle(c) == 100 + 9 * c[1] + 3 * c[2] + c[3]

InitMatch ==
    /\ GenIdle
    /\ LevelsIdle
    /\ calls = << >>
    /\ hist = [start1 |-> << >>, seen1 |-> {}, start2 |-> << >>, seen2 |-> {}]
    /\ levels = << 1 >>
    /\ files = {}
    /\ meshIn = Empty
    /\ jitter = 0
    /\ conn = Empty
    /\ ms = << >>
    /\ isovol = Empty
    /\ surf_curve = Empty
    /\ val_tag = Empty
    /\ sense_tag = Empty
    /\ gid_tag = Empty
    /\ dim_tag = Empty
    /\ children = {}
    /\ pc = "get_matches"
    /\ pairIdx = 0
    /\ k1 = 0
    /\ k2 = 0
    /\ s1 = 0
    /\ verts1 = {}
    /\ match_surfs = << >>
    /\ \E vertsA \in UNION {[1..n -> MatchPoints] : n \in 1..MaxA} :
       \E P \in {Q \in SUBSET MatchPoints : Cardinality(Q) \in 1..MaxB} :
         lastMatch = [A |-> vertsA, B |-> [c \in P |-> PointHandle(c)],
                      m |-> Empty, d |-> Empty]
    /\ shared_of = Empty
    /\ err = "none"

\* one call __get_matches(vertsA, vertsB)
CallGetMatches ==
    /\ pc = "get_matches"
    /\ \E r \in GetMatches(lastMatch.A, lastMatch.B) :
         lastMatch' = [lastMatch EXCEPT !.m = r.m, !.d = r.d]
    /\ pc' = "matched"
    /\ UNCHANGED << genVars, lvlVars, calls, hist >>
    /\ UNCHANGED << levels, files, meshIn, jitter, conn, ms, isovol, surf_curve,
                    val_tag, sense_tag, gid_tag, dim_tag, children, pairIdx,
                    k1, k2, s1, verts1, match_surfs, shared_of, err >>

NextMatch == CallGetMatches

SpecMatch == InitMatch /\ [][NextMatch]_vars

(***************************************************************************)
(* __generate_vols and __get_isovol.  Level values are the even numbers    *)
(* 2, 4, ..; the data values on the mesh are odd numbers, so a value lies  *)
(* strictly inside one band.                                               *)
(***************************************************************************)
\* v.ExportDatabase(e): 0 when the isovolume lbound..ubound holds no data
ExportRes(lbound, ubound) ==
    IF \E d \in data : lbound <= d /\ d <= ubound THEN 1 ELSE 0

\* __update_levels(value): self.levels.remove(value)
UpdateLevels(lv, value) == ListRemove(lv, value)

\* __get_isovol(lbound, ubound, i): the export result, self.levels and the
\* files of db/vols after the call
GetIsovol(lbound, ubound, i) ==
    LET export_res == ExportRes(lbound, ubound)
    IN  [res |-> export_res,
         levels |-> IF export_res = 0
                    THEN IF ubound \in SeqToSet(levels)
                         THEN UpdateLevels(levels, ubound)
                         ELSE UpdateLevels(levels, levels[Len(levels)])
                    ELSE levels,
         exported |-> IF export_res = 0
                      THEN exported
                      ELSE (i :> << lbound, ubound >>) @@ exported]

\* self.levels.index(l), 0-based
IndexOf(lv, l) == Min({k \in 1..Len(lv) : lv[k] = l}) - 1
\* lv[j] for a 0-based j that may be -1 (the last entry)
PyIndex(lv, j) == IF j < 0 THEN lv[Len(lv) + 1 + j] ELSE lv[j + 1]
\* lv[1:]
PyTail(lv) == IF lv = << >> THEN << >> ELSE Tail(lv)

\* "lbound = 0.0; ubound = self.levels[0]; self.__get_isovol(lbound, ubound, 0)"
\* and the evaluation of self.levels[1:] for the loop
GenFirst ==
    /\ pc = "gen_first"
    /\ LET r == GetIsovol(BottomBound, levels[1], 0)
       IN  /\ levels' = r.levels
           /\ exported' = r.exported
           /\ files' = DOMAIN r.exported
           /\ loop_levels' = PyTail(r.levels)
           /\ lastExport' = [n |-> lastExport.n + 1, i |-> 0,
                             lbound |-> BottomBound, ubound |-> levels[1],
                             res |-> r.res, at |-> "first"]
    /\ loop_pos' = 0
    /\ pc' = "gen_loop"
    /\ UNCHANGED << err, data, idx, mergeVars, lvlVars >>

\* one iteration of "for l in self.levels[1:]".  __get_isovol returns the
\* tuple (export_res, ubound), which never equals 0: the while loop runs its
\* body once.
GenLoop ==
    /\ pc = "gen_loop"
    /\ loop_pos < Len(loop_levels)
    /\ LET l == loop_levels[loop_pos + 1]
           i == IndexOf(levels, l)
           lbound == PyIndex(levels, i - 1)
           r == GetIsovol(lbound, l, i)
       IN  /\ levels' = r.levels
           /\ exported' = r.exported
           /\ files' = DOMAIN r.exported
           /\ idx' = i
           /\ lastExport' = [n |-> lastExport.n + 1, i |-> i,
                             lbound |-> lbound, ubound |-> l,
                             res |-> r.res, at |-> "loop"]
    /\ loop_pos' = loop_pos + 1
    /\ UNCHANGED << pc, err, data, loop_levels, mergeVars, lvlVars >>

\* "lbound = self.levels[-1]; ubound = 1.e200;
\*  self.__get_isovol(lbound, ubound, i+1)"
GenLast ==
    /\ pc = "gen_loop"
    /\ loop_pos = Len(loop_levels)
    /\ levels # << >>
    /\ idx # Unbound
    /\ LET lbound == levels[Len(levels)]
           r == GetIsovol(lbound, TopBound, idx + 1)
       IN  /\ levels' = r.levels
           /\ exported' = r.exported
           /\ files' = DOMAIN r.exported
           /\ lastExport' = [n |-> lastExport.n + 1, i |-> idx + 1,
                             lbound |-> lbound, ubound |-> TopBound,
                             res |-> r.res, at |-> "last"]
    /\ pc' = "gen_done"
    /\ UNCHANGED << err, data, loop_levels, loop_pos, idx, mergeVars, lvlVars >>

\* the same statements when self.levels is empty (self.levels[-1]) or when
\* the loop body never ran (i has no value)
GenLastRaises ==
    /\ pc = "gen_loop"
    /\ loop_pos = Len(loop_levels)
    /\ levels = << >> \/ idx = Unbound
    /\ err' = IF levels = << >> THEN "IndexError" ELSE "UnboundLocalError"
    /\ pc' = "error"
    /\ UNCHANGED << levels, files, mergeVars, genVars, lvlVars >>

\* create_geometry is not running
MergeIdle ==
    /\ meshIn = Empty
    /\ jitter = 0
    /\ conn = Empty
    /\ ms = << >>
    /\ isovol = Empty
    /\ surf_curve = Empty
    /\ val_tag = Empty
    /\ sense_tag = Empty
    /\ gid_tag = Empty
    /\ dim_tag = Empty
    /\ children = {}
    /\ pairIdx = 0
    /\ k1 = 0
    /\ k2 = 0
    /\ s1 = 0
    /\ verts1 = {}
    /\ match_surfs = << >>
    /\ lastMatch = [A |-> Empty, B |-> Empty, m |-> Empty, d |-> Empty]
    /\ shared_of = Empty
    /\ calls = << >>
    /\ hist = [start1 |-> << >>, seen1 |-> {}, start2 |-> << >>, seen2 |-> {}]

\* level lists without repeated values (assign_levels, read_levels)
GenLevelLists ==
    {l \in UNION {[1..n -> {2 * k : k \in 1..MaxGenLevels}] : n \in 1..MaxGenLevels} :
        \A j \in 1..(Len(l) - 1) : l[j] < l[j + 1]}

\* the data values a mesh can hold
GenDataVals == {2 * k - 1 : k \in 1..(MaxGenLevels + 1)}

\* generate_volumes: levels are set, db/vols is emptied
InitGen ==
    /\ MergeIdle
    /\ LevelsIdle
    /\ levels \in GenLevelLists
    /\ data \in SUBSET GenDataVals
    /\ files = {}
    /\ exported = Empty
    /\ loop_levels = << >>
    /\ loop_pos = 0
    /\ idx = Unbound
    /\ lastExport = [n |-> 0, i |-> 0, lbound |-> 0, ubound |-> 0, res |-> 1,
                     at |-> "none"]
    /\ pc = "gen_first"
    /\ err = "none"

NextGen ==
    \/ GenFirst
    \/ GenLoop
    \/ GenLast
    \/ GenLastRaises

SpecGen == InitGen /\ [][NextGen]_vars

(***************************************************************************)
(* generate_levels, mode 'ratio'                                           *)
(***************************************************************************)
\* "tmpmax = 0.; self.levels = [minN]"
RatioStart ==
    /\ pc = "ratio_start"
    /\ tmpmax' = 0
    /\ levels' = << minN >>
    /\ pc' = "ratio_loop"
    /\ UNCHANGED << files, err, N, minN, maxN, cut, mergeVars, genVars >>

\* one pass of the body of "while tmpmax < maxN"
RatioStep ==
    /\ pc = "ratio_loop"
    /\ tmpmax < maxN
    /\ LET next_val == levels[Len(levels)] * N
       IN  IF next_val <= maxN
           THEN /\ IF Len(levels) < MaxRatioLevels
                   THEN /\ levels' = Append(levels, next_val)
                        /\ cut' = cut
                   ELSE /\ levels' = Append(Tail(levels), next_val)
                        /\ cut' = 1 - cut
                /\ tmpmax' = next_val
                /\ pc' = pc
           ELSE \* break
                /\ pc' = "levels_done"
                /\ UNCHANGED << levels, tmpmax, cut >>
    /\ UNCHANGED << files, err, N, minN, maxN, mergeVars, genVars >>

\* the loop condition is false
RatioExit ==
    /\ pc = "ratio_loop"
    /\ ~(tmpmax < maxN)
    /\ pc' = "levels_done"
    /\ UNCHANGED << levels, files, err, lvlVars, mergeVars, genVars >>

\* generate_levels(N, minN, maxN, mode='ratio')
InitLevels ==
    /\ MergeIdle
    /\ GenIdle
    /\ N \in 1..MaxRatio
    /\ minN \in 1..MaxMinN
    /\ maxN \in minN..MaxMaxN
    /\ tmpmax = 0
    /\ cut = 0
    /\ levels = << >>
    /\ files = {}
    /\ pc = "ratio_start"
    /\ err = "none"

NextLevels ==
    \/ RatioStart
    \/ RatioStep
    \/ RatioExit

\* the interpreter runs the next statement whenever there is one
SpecLevels == InitLevels /\ [][NextLevels]_vars /\ WF_vars(NextLevels)

(***************************************************************************)
(* Claims                                                                  *)
(***************************************************************************)
\* the largest per-axis distance of two coordinates
AxisDist(a, b) ==
    Max({Abs(a[1] - b[1]), Abs(a[2] - b[2]), Abs(a[3] - b[3])})

Disjoint(S, T) == S \cap T = {}

\* C1: while the files are being separated, the patches of every band
\* already separated partition the band's loaded vertices and triangles:
\* their union is the loaded set, any two patches share no vertex and no
\* triangle, and the file set holds no vertex any more.
C1_SeparatePartitions ==
    pc = "separate" =>
      \A i \in DOMAIN isovol :
        LET q == isovol[i].surfs_EH
        IN  /\ UNION {ms[q[k]].V : k \in 1..Len(q)} = FileVerts(i)
            /\ UNION {ms[q[k]].T : k \in 1..Len(q)} = FileTris(i)
            /\ \A k, l \in 1..Len(q) :
                 k # l => /\ Disjoint(ms[q[k]].V, ms[q[l]].V)
                          /\ Disjoint(ms[q[k]].T, ms[q[l]].T)
            /\ ms[isovol[i].fs].V = {}

\* C1 witness: one band was separated into two patches, and a patch of
\* another band needed more than one round of the flood fill (two facets
\* joined in one vertex)
C1_Witness ==
    /\ pc = "separate"
    /\ \E i \in DOMAIN isovol : Len(isovol[i].surfs_EH) = 2
    /\ \E i \in DOMAIN isovol :
         /\ Len(isovol[i].surfs_EH) = 1
         /\ Cardinality(ms[isovol[i].surfs_EH[1]].V) = 5

\* the coordinate that vertsB lists for its vertex b
CoordOfB(vertsB, b) == CHOOSE c \in DOMAIN vertsB : vertsB[c] = b

\* C2: after a call of __get_matches, every returned pair and every pair of
\* match_dict is within merge_tol on each axis, and every vertex of A that
\* was not matched has no vertex of B within merge_tol on all three axes.
C2_MatchesWithinTol ==
    pc # "get_matches" =>
      LET A == lastMatch.A
          B == lastMatch.B
      IN  /\ \A a \in DOMAIN lastMatch.m :
               AxisDist(A[a], CoordOfB(B, lastMatch.m[a])) <= MergeTol
          /\ \A b \in DOMAIN lastMatch.d :
               AxisDist(A[lastMatch.d[b]], CoordOfB(B, b)) <= MergeTol
          /\ \A a \in DOMAIN A \ DOMAIN lastMatch.m :
               \A c \in DOMAIN B : AxisDist(A[a], c) > MergeTol

\* C2 witness: a call that matched one vertex exactly and one approximately,
\* with two candidates in tolerance
C2_Witness ==
    /\ pc = "matched"
    /\ Cardinality(DOMAIN lastMatch.m) = 2
    /\ \E a \in DOMAIN lastMatch.m : lastMatch.A[a] \in DOMAIN lastMatch.B
    /\ \E a \in DOMAIN lastMatch.m :
         /\ lastMatch.A[a] \notin DOMAIN lastMatch.B
         /\ Cardinality({c \in DOMAIN lastMatch.B :
                           AxisDist(lastMatch.A[a], c) <= MergeTol}) = 2


\* the positions p (0-based) of all_vols whose call
\* __compare_surfs(all_vols[p], all_vols[p+1]) has returned
ComparedPairs ==
    IF pc \in {"separate", "get_matches", "matched"} THEN {}
    ELSE {p \in 0..(pairIdx - 1) : p # Len(levels) /\ p + 2 <= Len(AllVols)}

\* a listed patch that is no coincident (shared) surface
Unshared(s) == s \notin DOMAIN shared_of

\* C3: once __compare_surfs has returned for two adjacent volumes, no vertex
\* left in an unshared patch of the first is within merge_tol, per axis, of
\* a vertex left in an unshared patch of the second.
C3_NoCoincidentLeft ==
    \A p \in ComparedPairs :
      \A sa \in SeqToSet(isovol[AllVols[p + 1]].surfs_EH) :
      \A sb \in SeqToSet(isovol[AllVols[p + 2]].surfs_EH) :
        (Unshared(sa) /\ Unshared(sb)) =>
          \A a \in ms[sa].V : \A b \in ms[sb].V :
            AxisDist(Coord(a), Coord(b)) > MergeTol

\* C4: when __make_family is done, the global ids of each dimension are
\* exactly 1..N, N the number of entities of that dimension.
C4_ContiguousIds ==
    pc = "done" =>
      \A dim \in 1..3 :
        LET ents == {h \in DOMAIN dim_tag : dim_tag[h] = dim}
        IN  {gid_tag[h] : h \in ents} = 1..Cardinality(ents)

\* the bound values, None left out, common to the bounds of volumes i and j
CommonLevels(i, j) ==
    ({isovol[i].bounds[1], isovol[i].bounds[2]}
       \cap {isovol[j].bounds[1], isovol[j].bounds[2]}) \ {None}

\* C5: every coincident surface made for volumes (Vi, Vi+1) carries a value,
\* and it is the bound value common to both volumes times norm; it is 0 only
\* when the bounds have no common element.
C5_SharedValue ==
    \A s \in DOMAIN shared_of :
      LET common == CommonLevels(shared_of[s][1], shared_of[s][2])
      IN  /\ s \in DOMAIN val_tag
          /\ IF common = {} THEN val_tag[s] = 0
             ELSE \E x \in common : val_tag[s] = x * Norm

\* the volume whose file the unshared patch s was separated from
OwnerOf(s) == CHOOSE i \in DOMAIN isovol : s \in SeqToSet(isovol[i].surfs_EH)

\* C6: when __imprint_merge has returned, a coincident surface made for
\* (Vi, Vi+1) has forward = Vi, the volume of lower rank, and backward =
\* Vi+1; every other listed patch has forward = its own volume and
\* backward = 0.
C6_SensePairs ==
    pc \in {"family", "done"} =>
      /\ \A s \in DOMAIN shared_of :
           /\ shared_of[s][1] < shared_of[s][2]
           /\ s \in DOMAIN sense_tag
           /\ sense_tag[s] = << isovol[shared_of[s][1]].fs, isovol[shared_of[s][2]].fs >>
      /\ \A s \in ListedSurfs \ DOMAIN shared_of :
           /\ s \in DOMAIN sense_tag
           /\ sense_tag[s] = << isovol[OwnerOf(s)].fs, 0 >>

\* C6 witness: __imprint_merge returned with a coincident surface between
\* two volumes and a patch that was never matched
C6_Witness ==
    /\ pc = "family"
    /\ \E s \in DOMAIN shared_of : s \in ListedSurfs
    /\ \E s \in ListedSurfs \ DOMAIN shared_of : ms[s].T # {}
    /\ Cardinality(DOMAIN isovol) = 3

\* C7: when __imprint_merge has returned, every patch in a volume's
\* surfs_EH has a value tag and a sense tag.
C7_AllTagged ==
    pc \in {"family", "done"} =>
      \A i \in DOMAIN isovol :
        \A k \in 1..Len(isovol[i].surfs_EH) :
          /\ isovol[i].surfs_EH[k] \in DOMAIN val_tag
          /\ isovol[i].surfs_EH[k] \in DOMAIN sense_tag

\* C7 witness: __imprint_merge returned with a patch tagged by the
\* post-pass (value 0) in the last volume, next to a coincident surface
C7_Witness ==
    /\ pc = "family"
    /\ DOMAIN shared_of # {}
    /\ \E s \in SeqToSet(isovol[Max(DOMAIN isovol)].surfs_EH) :
         s \notin DOMAIN shared_of /\ val_tag[s] = 0

\* the triangles loaded from file i that are still in the store
Surviving(i) == FileTris(i) \cap DOMAIN conn

\* C8: at the end of a __compare_surfs call and at the end of
\* __imprint_merge, every surviving triangle of a band is in exactly one
\* patch of its volume's surfs_EH, and no triangle is in two patches of the
\* same volume.
C8_TriangleInOnePatch ==
    ((pc = "merge" /\ ComparedPairs # {}) \/ pc = "family") =>
      \A i \in DOMAIN isovol :
        LET q == isovol[i].surfs_EH
        IN  /\ \A t \in Surviving(i) : \E k \in 1..Len(q) : t \in ms[q[k]].T
            /\ \A k, l \in 1..Len(q) :
                 k # l => Disjoint(ms[q[k]].T \cap DOMAIN conn,
                                   ms[q[l]].T \cap DOMAIN conn)

\* C9: every loaded volume of rank i has the bounds (None, levels[0]) for
\* i = 0, (levels[-1], None) for i = len(levels), (levels[i-1], levels[i])
\* otherwise, and two volumes of consecutive rank share exactly one bound
\* value that is not None.
C9_Bounds ==
    /\ \A i \in DOMAIN isovol :
         LET n == Len(levels)
             lo == IF i = 0 THEN None ELSE levels[i]
             hi == IF i = n THEN None ELSE levels[i + 1]
         IN  isovol[i].bounds = << lo, hi >>
    /\ \A i \in DOMAIN isovol :
         (i + 1) \in DOMAIN isovol => Cardinality(CommonLevels(i, i + 1)) = 1

\* C9 witness: __separate_isovols has loaded the three volumes of two
\* different levels
C9_Witness ==
    /\ pc = "merge"
    /\ DOMAIN isovol = {0, 1, 2}
    /\ levels[1] # levels[2]

\* C10: a band file without triangles ends the run with EmptyMeshError; no
\* volume is made for it.
C10_EmptyFileRaises ==
    \A i \in DOMAIN isovol :
      meshIn[i] = {} => (pc = "error" /\ err = "EmptyMeshError")


\* C11: __generate_vols ends without an exception, and when it has ended
\* the exported files are exactly the ranks 0..N, N = len(self.levels) at
\* that moment; file 0 was exported from 0 up to levels[0], file i from
\* levels[i-1] up to levels[i], and file N from levels[-1] upwards.
C11_ExportedFiles ==
    /\ ~(pc = "error" /\ lastExport.n > 0)
    /\ pc = "gen_done" =>
         LET n == Len(levels)
         IN  /\ DOMAIN exported = 0..n
             /\ files = 0..n
             /\ \A r \in DOMAIN exported :
                  /\ r = 0 => exported[r][1] = BottomBound
                  /\ (r > 0 /\ r <= n) => exported[r][1] = levels[r]
                  /\ r < n => exported[r][2] = levels[r + 1]


\* C12: within one __compare_surfs call no comparison is skipped.  When the
\* loop over s2 is exhausted for an s1 that still has vertices, every patch
\* that was in Vi+1's list when that loop started has been compared with
\* s1; when the loop over s1 is exhausted, every patch that was in Vi's list
\* when the call started has been taken as s1.
C12_NoComparisonSkipped ==
    /\ (pc = "inner" /\ k2 >= Len(isovol[V2].surfs_EH)) =>
         SeqToSet(hist.start2) \subseteq hist.seen2
    /\ (pc = "outer" /\ k1 >= Len(isovol[V1].surfs_EH)) =>
         SeqToSet(hist.start1) \subseteq hist.seen1


\* __imprint_merge ended with the IndexError of all_vols[i+1]
MergeRaisedIndexError ==
    /\ pc = "error"
    /\ err = "IndexError"
    /\ \A i \in DOMAIN isovol : i <= Len(levels)

\* C13: __imprint_merge never takes an index past the end of all_vols, each
\* call __compare_surfs(v1, v2) it makes is for two volumes next to each
\* other in all_vols, the calls come in increasing order, and when it has
\* returned there was exactly one call for each such pair.
C13_ConsecutivePairs ==
    /\ ~MergeRaisedIndexError
    /\ \A c \in 1..Len(calls) :
         /\ c <= Len(AllVols) - 1
         /\ calls[c] = << AllVols[c], AllVols[c + 1] >>
    /\ pc \in {"family", "done"} => Len(calls) = Len(AllVols) - 1


\* C14: in every comparison of an s1 with an s2 that found matches, each
\* reference of a surviving triangle to a matched vertex of s2 is rewritten
\* to the vertex of s1 that match_dict gives for it, every other reference
\* is left as it was, and afterwards no triangle of the store references a
\* matched vertex of s2.
C14_StitchRewrites ==
    [][ (pc = "inner" /\ k2' = k2 + 1 /\ DOMAIN lastMatch'.m # {}) =>
          \A t \in DOMAIN conn' :
            \A j \in 1..3 :
              /\ conn'[t][j] \notin RangeOf(lastMatch'.m)
              /\ conn[t][j] \in DOMAIN lastMatch'.d =>
                   conn'[t][j] = lastMatch'.d[conn[t][j]]
              /\ conn[t][j] \notin DOMAIN lastMatch'.d =>
                   conn'[t][j] = conn[t][j]
      ]_vars


\* the edges of the triangles T that lie on exactly one triangle of T
PatchBoundary(c, T) ==
    {e \in {{c[t][a], c[t][b]} : t \in T, a \in 1..3, b \in 1..3} :
        /\ Cardinality(e) = 2
        /\ Cardinality({t \in T : e \subseteq {c[t][1], c[t][2], c[t][3]}}) = 1}

\* the curve list of surface h, empty when h has none yet
CurvesOf(sc, h) == IF h \in DOMAIN sc THEN sc[h] ELSE << >>

\* C15: in every comparison that makes a coincident surface: when the
\* surface has a boundary, exactly one more meshset is made, it holds the
\* boundary's vertices and edges, and it is appended to the curve lists of
\* s1, of s2 and of the new surface and to no other; when the surface has no
\* boundary, no meshset but the surface is made and every curve list is as
\* before.
C15_CurveCreation ==
    [][ (pc = "inner" /\ k2' = k2 + 1 /\ DOMAIN lastMatch'.m # {}) =>
          LET s2 == isovol[V2].surfs_EH[k2 + 1]
              surf == Len(ms) + 1
              curve == Len(ms) + 2
              boundary == PatchBoundary(conn, ms'[surf].T)
          IN  IF boundary # {}
              THEN /\ Len(ms') = Len(ms) + 2
                   /\ ms'[curve] = [V |-> UNION boundary, T |-> {}, E |-> boundary]
                   /\ \A h \in DOMAIN surf_curve' :
                        surf_curve'[h] =
                          IF h \in {s1, s2, surf}
                          THEN Append(CurvesOf(surf_curve, h), curve)
                          ELSE CurvesOf(surf_curve, h)
              ELSE /\ Len(ms') = Len(ms) + 1
                   /\ \A h \in DOMAIN surf_curve' :
                        surf_curve'[h] = CurvesOf(surf_curve, h)
      ]_vars

\* C15 witness: a coincident surface with a boundary, whose one curve is in
\* the curve lists of three surfaces, next to a coincident surface without
\* boundary and without curve
C15_Witness ==
    /\ \E s \in DOMAIN shared_of :
         /\ Len(surf_curve[s]) = 1
         /\ Cardinality({h \in DOMAIN surf_curve :
                           surf_curve[s][1] \in SeqToSet(surf_curve[h])}) = 3
         /\ ms[surf_curve[s][1]].E # {}
    /\ \E s \in DOMAIN shared_of : surf_curve[s] = << >>


\* C16: whenever an export made by the loop of __generate_vols found no
\* data, its upper bound has been removed from self.levels, and the next
\* thing the run does is one more export for the same rank and from the
\* same lower bound, up to a level that is still in self.levels.
C16_RetrySameRank ==
    [][ (lastExport.at = "loop" /\ lastExport.res = 0) =>
          /\ lastExport.ubound \notin SeqToSet(levels)
          /\ lastExport'.n = lastExport.n + 1
          /\ lastExport'.i = lastExport.i
          /\ lastExport'.lbound = lastExport.lbound
          /\ lastExport'.ubound \in SeqToSet(levels)
      ]_vars


\* the entities __make_family tagged with dimension dim
EntsOfDim(dim) == {h \in DOMAIN dim_tag : dim_tag[h] = dim}

\* C17: when __make_family is done, two different volumes, two different
\* surfaces and two different curves never have the same global id.
C17_NoDuplicateIds ==
    pc = "done" =>
      \A dim \in 1..3 :
        \A h, g \in EntsOfDim(dim) :
          h # g => gid_tag[h] # gid_tag[g]

\* C17 witness: __make_family is done with a surface listed by two volumes,
\* two curves, and a curve that is the child of three surfaces
C17_Witness ==
    /\ pc = "done"
    /\ \E s \in EntsOfDim(2) :
         Cardinality({i \in DOMAIN isovol : s \in SeqToSet(isovol[i].surfs_EH)}) = 2
    /\ Cardinality(EntsOfDim(1)) >= 2
    /\ Cardinality(EntsOfDim(2)) >= 2
    /\ \E c \in EntsOfDim(1) :
         Cardinality({s \in DOMAIN surf_curve : c \in SeqToSet(surf_curve[s])}) = 3


\* C18: generate_levels in ratio mode terminates, and then the level list
\* starts with minN and its largest value is at most maxN.
C18_RatioTerminates ==
    <>(/\ pc = "levels_done"
       /\ levels[1] = minN
       /\ \A k \in 1..Len(levels) : levels[k] <= maxN)

====
